---- MODULE Spec2Model ----
(***************************************************************************)
(* The poplar heap of src/poplar.h: make_heap, push_heap, pop_heap,        *)
(* sort_heap, is_heap_until and is_heap over a caller-owned array.         *)
(*                                                                         *)
(* Positions are offsets from `first`, as in the code: the range           *)
(* [first, last) is the positions 0 .. n-1, and position n is `last`.      *)
(* The caller's array holds n elements.  The memory of a call is the array  *)
(* and one more cell, the cell behind it, which holds whatever was left    *)
(* there.  An access behind the array is undefined behaviour; what follows *)
(* it is a choice the build makes: a build that checks accesses stops      *)
(* there (traps = TRUE), any other build goes on with what the cell holds. *)
(*                                                                         *)
(* Elements are integers: a move leaves the source as it was (a copy).     *)
(***************************************************************************)
EXTENDS Integers, Sequences, FiniteSets, Bags, TLC

\* ------------------------------------------------------------------ bounds

\* Element values of the exhaustive specification are 0 .. MaxVal.
MaxVal == 1
\* Longest range of the exhaustive specification.
MaxLen == 5
\* Longest range of the specifications over patterned inputs: of the one that
\* follows every call, and of the one that reaches the 63-element poplar.
MaxMid == 32
MaxN == 63
\* Longest range built by make_heap that the caller overwrites an element of.
MaxCorrupt == 16
\* Number of scrambled input patterns per length.
MaxSeed == 1
\* The comparator may throw at its 1st .. MaxThrowAt-th call.
MaxThrowAt == 3
\* Width, in bits, of the model's unsigned size type (64 in a usual build).
Digits == 16

\* ----------------------------------------------------- unsigned arithmetic

RECURSIVE Pow2(_)
Pow2(k) == IF k = 0 THEN 1 ELSE 2 * Pow2(k - 1)

\* The unsigned size type holds the values 0 .. Modulus - 1.
Modulus == Pow2(Digits)

Wrap(x) == x % Modulus

RECURSIVE BitAnd(_, _)
BitAnd(x, y) ==
    IF x = 0 \/ y = 0 THEN 0
    ELSE ((x % 2) * (y % 2)) + 2 * BitAnd(x \div 2, y \div 2)

RECURSIVE BitOr(_, _)
BitOr(x, y) ==
    IF x = 0 THEN y
    ELSE IF y = 0 THEN x
    ELSE (IF (x % 2) + (y % 2) > 0 THEN 1 ELSE 0) + 2 * BitOr(x \div 2, y \div 2)

Shr(x, i) == x \div Pow2(i)

BitNot(x) == (Modulus - 1) - x

Neg(x) == Wrap(Modulus - x)

\* The loop of hyperfloor: n |= (n >> i) for i = 1, 2, 4, ... while i <= bound.
RECURSIVE HyperfloorLoop(_, _, _)
HyperfloorLoop(n, i, bound) ==
    IF i <= bound THEN HyperfloorLoop(BitOr(n, Shr(n, i)), 2 * i, bound) ELSE n

\* 2^floor(log2(n)) for n > 0.
hyperfloor(n) ==
    LET m == HyperfloorLoop(n, 1, Digits \div 2)
    IN  BitAnd(m, BitNot(Shr(m, 1)))

\* -------------------------------------------------------------- comparator

Comparators == {"less", "greater", "half"}

\* compare(x, y): "x is heap-smaller than y".  "less" is std::less, "greater"
\* its inverse, "half" a strict weak order under which different values tie.
compare(c, x, y) ==
    CASE c = "less"    -> x < y
      [] c = "greater" -> x > y
      [] OTHER         -> (x \div 2) < (y \div 2)

\* ----------------------------------------------------------------- machine

\* One call's view of the world: the memory (the n cells of the caller's
\* array and the cell behind it), the end `lim` of the range [0, lim) handed
\* to the call, the comparator and the number of the call at which it throws
\* (0: never), whether the build traps on an access outside the array, and
\* what happened so far: the comparator's calls, the status ("ok", "threw":
\* the comparator's exception left the call, "trapped": the program was
\* stopped at an access outside the array, "diverged": a loop that repeats
\* its state), whether a position outside [0, lim) was accessed, the value
\* returned, and the poplars a walk visited.
Machine(memory, len, lim, c, throwAt, traps) ==
    [mem |-> memory, n |-> len, lim |-> lim, cmp |-> c, throwAt |-> throwAt,
     traps |-> traps, calls |-> 0, st |-> "ok", oob |-> FALSE, ret |-> lim,
     walk |-> << >>]

\* An access to position p.  Outside [0, lim) it is outside the range the
\* caller handed over.  At position n, the cell behind the array, a checking
\* build stops and any other build goes on with what the cell holds; the
\* memory before the array and past that cell is not modelled, and an access
\* there stops every build.
Touch(m, p) ==
    IF m.st # "ok" THEN m
    ELSE IF p >= 0 /\ p < m.lim THEN m
    ELSE IF p >= 0 /\ p < m.n THEN [m EXCEPT !.oob = TRUE]
    ELSE [m EXCEPT !.oob = TRUE,
                   !.st = IF m.traps \/ p < 0 \/ p > m.n THEN "trapped" ELSE "ok"]

\* One call of the comparator: it counts its calls and throws at call throwAt.
Call(m) ==
    IF m.st # "ok" THEN m
    ELSE [m EXCEPT !.calls = m.calls + 1,
                   !.st = IF m.calls + 1 = m.throwAt THEN "threw" ELSE "ok"]

\* The evaluation of compare(*p, *q) up to its result: both cells are read,
\* then the comparator is called.
Probe(m, p, q) == Call(Touch(Touch(m, p), q))

\* The result of compare(*p, *q), for a probe that went well.
Lt(m, p, q) == compare(m.cmp, m.mem[p], m.mem[q])

\* swap(*p, *q)
Swap(m, p, q) ==
    LET t == Touch(Touch(m, p), q)
    IN  IF t.st # "ok" THEN t
        ELSE [t EXCEPT !.mem = [m.mem EXCEPT ![p] = m.mem[q], ![q] = m.mem[p]]]

\* *p = std::move(*q)
Move(m, p, q) ==
    LET t == Touch(Touch(m, p), q)
    IN  IF t.st # "ok" THEN t
        ELSE [t EXCEPT !.mem = [m.mem EXCEPT ![p] = m.mem[q]]]

\* *p = std::move(tmp)
Store(m, p, v) ==
    LET t == Touch(m, p)
    IN  IF t.st # "ok" THEN t ELSE [t EXCEPT !.mem = [m.mem EXCEPT ![p] = v]]

\* ---------------------------------------------------------- insertion sort

\* The do-while of unchecked_insertion_sort, entered at its body with tmp
\* holding the element taken out of the array:
\*     do { *sift = std::move(*sift_1); }
\*     while (--sift != first && compare(tmp, *--sift_1));
\*     *sift = std::move(tmp);
\* When the comparator throws, tmp goes out of scope with the element in it.
RECURSIVE InsertionShift(_, _, _, _, _)
InsertionShift(m, first, sift, sift_1, tmp) ==
    LET m1 == Move(m, sift, sift_1)
        m2 == Call(Touch(m1, sift_1 - 1))
    IN  IF m1.st # "ok" THEN m1
        ELSE IF sift - 1 = first THEN Store(m1, sift - 1, tmp)
        ELSE IF m2.st # "ok" THEN m2
        ELSE IF compare(m.cmp, tmp, m2.mem[sift_1 - 1])
             THEN InsertionShift(m2, first, sift - 1, sift_1 - 1, tmp)
        ELSE Store(m2, sift - 1, tmp)

\* The for loop of unchecked_insertion_sort, at its test cur != last.
RECURSIVE InsertionLoop(_, _, _, _)
InsertionLoop(m, first, cur, last) ==
    LET m1 == Probe(m, cur, cur - 1)
    IN  IF m.st # "ok" \/ cur = last THEN m
        ELSE IF m1.st # "ok" THEN m1
        ELSE IF Lt(m1, cur, cur - 1)
             THEN InsertionLoop(InsertionShift(m1, first, cur, cur - 1, m1.mem[cur]),
                                first, cur + 1, last)
        ELSE InsertionLoop(m1, first, cur + 1, last)

unchecked_insertion_sort(m, first, last) == InsertionLoop(m, first, first + 1, last)

insertion_sort(m, first, last) ==
    IF first = last THEN m ELSE unchecked_insertion_sort(m, first, last)

\* -------------------------------------------------------------------- sift

\* The while (true) loop of sift.  The last line's size / 2 - size is taken
\* in the unsigned Size and wraps; added to the iterator it moves it back by
\* size - size / 2.
RECURSIVE SiftLoop(_, _, _, _, _)
SiftLoop(m, size, root, child_root1, child_root2) ==
    LET m1 == Probe(m, root, child_root1)
        max1 == IF Lt(m1, root, child_root1) THEN child_root1 ELSE root
        m2 == Probe(m1, max1, child_root2)
        max_root == IF Lt(m2, max1, child_root2) THEN child_root2 ELSE max1
        m3 == Swap(m2, root, max_root)
        half == size \div 2
    IN  IF m1.st # "ok" THEN m1
        ELSE IF m2.st # "ok" THEN m2
        ELSE IF max_root = root THEN m2
        ELSE IF m3.st # "ok" \/ half < 2 THEN m3
        ELSE SiftLoop(m3, half, max_root, max_root - 1,
                      max_root - (half - half \div 2))

sift(m, first, size) ==
    IF m.st # "ok" \/ size < 2 THEN m
    ELSE SiftLoop(m, size, first + (size - 1), first + (size - 1) - 1,
                  first + (size \div 2 - 1))

\* ---------------------------------------------------------------- pop_heap

\* A faulty variant: hyperfloor(size + 1u), without the - 1u.
PoplarSize_without_decrement(size) == Wrap(hyperfloor(Wrap(size + 1)))

\* hyperfloor(size + 1u) - 1u, in the unsigned size type.
PoplarSize(size) == Wrap(hyperfloor(Wrap(size + 1)) - 1)

\* The while (true) loop of pop_heap_with_size that looks for the bigger
\* poplar root, at its top.  It returns the machine with the poplars visited
\* (the size left, the poplar's size and its root) and the bigger root found
\* as <<bigger, bigger_size>> in ret.  A poplar of size 0 whose root is not
\* the last one leaves it and size as they are: the loop repeats its state.
RECURSIVE PopWalk(_, _, _, _, _, _, _)
PopWalk(m, it, size, poplar_size, last_root, bigger, bigger_size) ==
    LET root == it + poplar_size - 1
        seen == [m EXCEPT !.walk = Append(m.walk, <<size, poplar_size, root>>)]
        m1 == Probe(seen, bigger, root)
        gt == Lt(m1, bigger, root)
        left == Wrap(size - poplar_size)
    IN  IF root = last_root
        THEN [seen EXCEPT !.ret = <<bigger, bigger_size>>]
        ELSE IF m1.st # "ok" THEN m1
        ELSE IF poplar_size = 0 THEN [m1 EXCEPT !.st = "diverged"]
        ELSE PopWalk(m1, root + 1, left, PoplarSize(left), last_root,
                     IF gt THEN root ELSE bigger,
                     IF gt THEN poplar_size ELSE bigger_size)

\* A faulty variant: the bigger root is exchanged with the last one, and the
\* poplar it was the root of is not sifted.
pop_heap_with_size_without_sift(m, first, last, size) ==
    LET w == PopWalk([m EXCEPT !.walk = << >>], first, size, PoplarSize(size),
                     last - 1, last - 1, PoplarSize(size))
        bigger == w.ret[1]
    IN  IF m.st # "ok" \/ w.st # "ok" THEN w
        ELSE IF bigger # last - 1 THEN Swap(w, bigger, last - 1)
        ELSE w

pop_heap_with_size(m, first, last, size) ==
    LET w == PopWalk([m EXCEPT !.walk = << >>], first, size, PoplarSize(size),
                     last - 1, last - 1, PoplarSize(size))
        bigger == w.ret[1]
        bigger_size == w.ret[2]
    IN  IF m.st # "ok" \/ w.st # "ok" THEN w
        ELSE IF bigger # last - 1
             THEN sift(Swap(w, bigger, last - 1), bigger - (bigger_size - 1),
                       bigger_size)
        ELSE w

pop_heap(m, first, last) == pop_heap_with_size(m, first, last, Wrap(last - first))

\* --------------------------------------------------------------- push_heap

\* The while loop of push_heap that finds the size of the last poplar, at
\* its test; the size found is returned in ret.  A poplar of size 0 with
\* elements left leaves size as it is: the loop repeats its state.
RECURSIVE LastPoplarSize(_, _, _)
LastPoplarSize(m, size, last_poplar_size) ==
    IF Wrap(size - last_poplar_size) = 0 THEN [m EXCEPT !.ret = last_poplar_size]
    ELSE IF last_poplar_size = 0 THEN [m EXCEPT !.st = "diverged"]
    ELSE LastPoplarSize(m, Wrap(size - last_poplar_size),
                        PoplarSize(Wrap(size - last_poplar_size)))

push_heap(m, first, last) ==
    LET w == LastPoplarSize(m, Wrap(last - first), PoplarSize(Wrap(last - first)))
    IN  IF w.st # "ok" THEN w ELSE sift(w, last - w.ret, w.ret)

\* --------------------------------------------------------------- sort_heap

\* The do-while of sort_heap, at its body.
RECURSIVE SortLoop(_, _, _, _)
SortLoop(m, first, last, size) ==
    LET m1 == pop_heap_with_size(m, first, last, size)
    IN  IF m1.st # "ok" THEN m1
        ELSE IF size - 1 > 1 THEN SortLoop(m1, first, last - 1, size - 1)
        ELSE m1

sort_heap(m, first, last) ==
    IF Wrap(last - first) < 2 THEN m
    ELSE SortLoop(m, first, last, Wrap(last - first))

\* --------------------------------------------------------------- make_heap

small_poplar_size == 15

\* (poplar_level & -poplar_level) >> 1, in the unsigned poplar_diff_t.
CarrySteps(poplar_level) == Shr(BitAnd(poplar_level, Neg(poplar_level)), 1)

\* The for loop of make_heap that follows the binary carry sequence, at its
\* test i != 0; `next` as the loop leaves it is returned in ret.
RECURSIVE MakeCarryLoop(_, _, _, _, _)
MakeCarryLoop(m, i, it, poplar_size, next) ==
    IF m.st # "ok" THEN m
    ELSE IF i = 0 THEN [m EXCEPT !.ret = next]
    ELSE MakeCarryLoop(sift(m, it - poplar_size, Wrap(2 * poplar_size + 1)),
                       Shr(i, 1), it - poplar_size, Wrap(2 * poplar_size + 1),
                       next + 1)

\* The while (true) loop of make_heap, at its top.  The distance from next
\* to last is converted to the unsigned poplar_diff_t before the test.
RECURSIVE MakeLoop(_, _, _, _, _)
MakeLoop(m, it, next, poplar_level, last) ==
    LET m1 == unchecked_insertion_sort(m, it, next)
        m2 == MakeCarryLoop(m1, CarrySteps(poplar_level), it, small_poplar_size, next)
    IN  IF m2.st # "ok" THEN m2
        ELSE IF Wrap(last - m2.ret) <= small_poplar_size
             THEN insertion_sort(m2, m2.ret, last)
        ELSE MakeLoop(m2, m2.ret, m2.ret + small_poplar_size,
                      Wrap(poplar_level + 1), last)

make_heap(m, first, last) ==
    IF Wrap(last - first) < 2 THEN m
    ELSE IF Wrap(last - first) <= small_poplar_size
         THEN unchecked_insertion_sort(m, first, last)
    ELSE MakeLoop(m, first, first + small_poplar_size, 1, last)

\* ----------------------------------------------------------- is_heap_until

\* A faulty variant of the loop below: the root is compared with its first
\* child root only.
RECURSIVE CheckCarryLoop_one_child(_, _, _, _, _, _)
CheckCarryLoop_one_child(m, i, it, poplar_size, next, last) ==
    LET begin == it - poplar_size
        size == Wrap(2 * poplar_size + 1)
        root == begin + (size - 1)
        child_root1 == root - 1
        m1 == Probe(m, root, child_root1)
    IN  IF i = 0 THEN [m EXCEPT !.ret = <<FALSE, next>>]
        ELSE IF m1.st # "ok" THEN m1
        ELSE IF Lt(m1, root, child_root1) THEN [m1 EXCEPT !.ret = <<TRUE, next>>]
        ELSE IF next = last THEN [m1 EXCEPT !.ret = <<TRUE, last>>]
        ELSE CheckCarryLoop_one_child(m1, Shr(i, 1), begin, size, next + 1, last)

\* The for loop of is_heap_until, at its test i != 0.  It leaves ret as
\* <<TRUE, position>> when the function returns from inside the loop, and as
\* <<FALSE, next>> when the loop ends.
RECURSIVE CheckCarryLoop(_, _, _, _, _, _)
CheckCarryLoop(m, i, it, poplar_size, next, last) ==
    LET begin == it - poplar_size
        size == Wrap(2 * poplar_size + 1)
        root == begin + (size - 1)
        child_root1 == root - 1
        child_root2 == begin + (size \div 2 - 1)
        m1 == Probe(m, root, child_root1)
        m2 == Probe(m1, root, child_root2)
    IN  IF i = 0 THEN [m EXCEPT !.ret = <<FALSE, next>>]
        ELSE IF m1.st # "ok" THEN m1
        ELSE IF Lt(m1, root, child_root1) THEN [m1 EXCEPT !.ret = <<TRUE, next>>]
        ELSE IF m2.st # "ok" THEN m2
        ELSE IF Lt(m2, root, child_root2) THEN [m2 EXCEPT !.ret = <<TRUE, next>>]
        ELSE IF next = last THEN [m2 EXCEPT !.ret = <<TRUE, last>>]
        ELSE CheckCarryLoop(m2, Shr(i, 1), begin, size, next + 1, last)

\* The while (true) loop of is_heap_until, at its top; the position returned
\* is left in ret.
RECURSIVE CheckLoop(_, _, _, _, _)
CheckLoop(m, it, next, poplar_level, last) ==
    LET c == CheckCarryLoop(m, CarrySteps(poplar_level), it, 1, next, last)
    IN  IF c.st # "ok" THEN c
        ELSE IF c.ret[1] THEN [c EXCEPT !.ret = c.ret[2]]
        ELSE IF c.ret[2] = last THEN [c EXCEPT !.ret = last]
        ELSE CheckLoop(c, c.ret[2], c.ret[2] + 1, Wrap(poplar_level + 1), last)

is_heap_until(m, first, last) ==
    IF last - first < 2 THEN [m EXCEPT !.ret = last]
    ELSE CheckLoop(m, first, first + 1, 1, last)

\* is_heap: whether is_heap_until returned last.
is_heap(m, first, last) ==
    LET r == is_heap_until(m, first, last)
    IN  IF r.st # "ok" THEN r ELSE [r EXCEPT !.ret = (r.ret = last)]

\* ------------------------------------------------- the documented contract

\* The size of the first poplar of a forest over len elements: the largest
\* 2^k - 1 that is at most len.
RECURSIVE LargestPoplar(_, _)
LargestPoplar(s, len) == IF 2 * s + 1 <= len THEN LargestPoplar(2 * s + 1, len) ELSE s

FirstPoplar(len) == LargestPoplar(0, len)

\* The poplar property of the poplar of `size` elements that begins at
\* `begin`: its root is not heap-smaller than either child root, recursively.
RECURSIVE IsPoplar(_, _, _, _)
IsPoplar(a, c, begin, size) ==
    IF size <= 1 THEN TRUE
    ELSE /\ ~compare(c, a[begin + size - 1], a[begin + size - 2])
         /\ ~compare(c, a[begin + size - 1], a[begin + (size - 1) \div 2 - 1])
         /\ IsPoplar(a, c, begin, (size - 1) \div 2)
         /\ IsPoplar(a, c, begin + (size - 1) \div 2, (size - 1) \div 2)

RECURSIVE IsForestFrom(_, _, _, _)
IsForestFrom(a, c, begin, len) ==
    IF len = 0 THEN TRUE
    ELSE /\ IsPoplar(a, c, begin, FirstPoplar(len))
         /\ IsForestFrom(a, c, begin + FirstPoplar(len), len - FirstPoplar(len))

\* [0, len) is a valid forest: the precondition of pop_heap and sort_heap,
\* and, for the range without its last element, of push_heap.
IsForest(a, c, len) == IsForestFrom(a, c, 0, len)

\* ------------------------------------------------------------------- state

VARIABLES
    mem,    \* the caller's array: its elements at the positions 0 .. n-1
    n,      \* the length of the caller's array
    cmp,    \* the comparator the caller passes
    op,     \* the last call
    lim,    \* the end of the range [0, lim) handed to the last call
    st,     \* how the last call ended
    oob,    \* whether the last call accessed a position outside [0, lim)
    ret,    \* the position the last is_heap_until returned; after push_heap,
            \* the size of the last poplar it found
    walk,   \* the poplars the last pop_heap_with_size visited
    mut,    \* the last call that changed the array
    pre,    \* the array before that call
    cpos    \* the position the caller last overwrote

vars == <<mem, n, cmp, op, lim, st, oob, ret, walk, mut, pre, cpos>>

Values == 0 .. MaxVal

\* What the cell behind the array may hold: any value, also one below or
\* above every element.
Garbage == (0 - 1) .. (MaxVal + 1)

\* The calls of the comparator at which it may throw (0: it never does); the
\* throwing comparators are tried on the arrays of at most MaxLen elements.
ThrowAts == IF n <= MaxLen THEN 0 .. MaxThrowAt ELSE {0}

\* The memory of a call: the array and, behind it, a cell holding g.
Padded(a, len, g) == [p \in 0 .. len |-> IF p < len THEN a[p] ELSE g]

\* The array in the memory a call leaves.
Array(m, len) == [p \in 0 .. len - 1 |-> m[p]]

Start(a, len) ==
    /\ mem = a
    /\ n = len
    /\ cmp \in Comparators
    /\ op = "init"
    /\ lim = len
    /\ st = "ok"
    /\ oob = FALSE
    /\ ret = 0
    /\ walk = << >>
    /\ mut = "init"
    /\ pre = a
    /\ cpos = 0

\* Every array of at most MaxLen values.
Init == \E k \in 0 .. MaxLen : \E a \in [0 .. k - 1 -> Values] : Start(a, k)

\* The inputs of the larger specification: ascending, descending, all-equal
\* and scrambled arrays of every length up to MaxN.
Pattern(kind, k) ==
    [p \in 0 .. k - 1 |->
        CASE kind = 0 -> p
          [] kind = 1 -> k - p
          [] kind = 2 -> 0
          [] OTHER    -> ((p + kind) * (p + 1) * 7 + kind) % 11]

InitBig ==
    \E k \in MaxLen + 1 .. MaxN : \E kind \in 0 .. 2 + MaxSeed : Start(Pattern(kind, k), k)

\* A scenario goes on while every call returned, up to its check: a call of
\* is_heap_until changes nothing, so whatever could follow it could follow
\* the state it was made in.
Checkable == st = "ok" /\ op # "is_heap_until"

\* An array the caller overwrote an element of is checked, and nothing else.
Open == Checkable /\ op # "corrupt"

\* The array is a valid forest: the documented precondition of push_heap (for
\* the array before the caller appends), pop_heap and sort_heap.
Forest == IsForest(mem, cmp, n)

\* The state a call that may change the array leaves: r is the machine the
\* call ended in.
Returned(name, r, len, before) ==
    /\ mem' = Array(r.mem, len)
    /\ n' = len
    /\ op' = name
    /\ mut' = name
    /\ lim' = r.lim
    /\ st' = r.st
    /\ oob' = r.oob
    /\ ret' = IF name = "push_heap" /\ r.st = "ok" THEN r.ret ELSE 0
    /\ walk' = r.walk
    /\ pre' = before
    /\ cpos' = 0
    /\ UNCHANGED cmp

\* make_heap(first, last, compare) over the whole array: over any array of
\* at most MaxLen elements, and over the longer ones as given.  A call that a
\* checking build does not stop accessed nothing outside the array, and every
\* build runs it alike; one it stops goes on, in another build, with whatever
\* the cell behind the array holds.
MakeHeap(t) ==
    /\ Open
    /\ n <= MaxLen \/ op = "init"
    /\ LET strict == make_heap(Machine(Padded(mem, n, 0), n, n, cmp, t, TRUE), 0, n)
           loose == {make_heap(Machine(Padded(mem, n, g), n, n, cmp, t, FALSE), 0, n) :
                        g \in Garbage}
       IN  \E r \in (IF strict.st = "trapped" THEN {strict} \cup loose ELSE {strict}) :
               Returned("make_heap", r, n, mem)

\* The caller appends v to a valid forest, then calls push_heap(first, last,
\* compare) over the whole array.
PushHeap(v, t) ==
    /\ Open
    /\ Forest
    /\ n < MaxLen
    /\ LET grown == Padded(mem, n, v)
           strict == push_heap(Machine(Padded(grown, n + 1, 0), n + 1, n + 1, cmp, t, TRUE),
                               0, n + 1)
           loose == {push_heap(Machine(Padded(grown, n + 1, g), n + 1, n + 1, cmp, t, FALSE),
                               0, n + 1) : g \in Garbage}
       IN  \E r \in (IF strict.st = "trapped" THEN {strict} \cup loose ELSE {strict}) :
               Returned("push_heap", r, n + 1, grown)

\* pop_heap(first, last, compare) over the whole array, a valid forest.
PopHeap(t) ==
    /\ Open
    /\ Forest
    /\ n >= 1
    /\ LET strict == pop_heap(Machine(Padded(mem, n, 0), n, n, cmp, t, TRUE), 0, n)
           loose == {pop_heap(Machine(Padded(mem, n, g), n, n, cmp, t, FALSE), 0, n) :
                        g \in Garbage}
       IN  \E r \in (IF strict.st = "trapped" THEN {strict} \cup loose ELSE {strict}) :
               Returned("pop_heap", r, n, mem)

\* sort_heap(first, last, compare) over the whole array, a valid forest.
SortHeap(t) ==
    /\ Open
    /\ Forest
    /\ LET strict == sort_heap(Machine(Padded(mem, n, 0), n, n, cmp, t, TRUE), 0, n)
           loose == {sort_heap(Machine(Padded(mem, n, g), n, n, cmp, t, FALSE), 0, n) :
                        g \in Garbage}
       IN  \E r \in (IF strict.st = "trapped" THEN {strict} \cup loose ELSE {strict}) :
               Returned("sort_heap", r, n, mem)

\* is_heap_until(first, first + l, compare), for the whole array or the array
\* without its last element.
IsHeapUntil(l) ==
    /\ Checkable
    /\ l >= 0
    /\ LET strict == is_heap_until(Machine(Padded(mem, n, 0), n, l, cmp, 0, TRUE), 0, l)
           loose == {is_heap_until(Machine(Padded(mem, n, g), n, l, cmp, 0, FALSE), 0, l) :
                        g \in Garbage}
       IN  \E r \in (IF strict.st = "trapped" THEN {strict} \cup loose ELSE {strict}) :
               /\ op' = "is_heap_until"
               /\ lim' = l
               /\ st' = r.st
               /\ oob' = r.oob
               /\ ret' = IF r.st = "ok" THEN r.ret ELSE 0
    /\ UNCHANGED <<mem, n, cmp, walk, mut, pre, cpos>>

\* The caller drops the last element after a pop_heap.
Shrink ==
    /\ Open
    /\ op = "pop_heap"
    /\ n >= 1
    /\ n <= MaxLen
    /\ mem' = Array(mem, n - 1)
    /\ n' = n - 1
    /\ op' = "shrink"
    /\ mut' = "shrink"
    /\ lim' = n - 1
    /\ pre' = mem
    /\ oob' = FALSE
    /\ ret' = 0
    /\ walk' = << >>
    /\ cpos' = 0
    /\ UNCHANGED <<cmp, st>>

\* The caller overwrites the element at position c of a valid forest with v:
\* of any forest of at most MaxLen elements, and of the ones of at most
\* MaxCorrupt elements as make_heap built them.
Corrupt(c, v) ==
    /\ Open
    /\ n <= MaxLen \/ (op = "make_heap" /\ n <= MaxCorrupt)
    /\ Forest
    /\ c < n
    /\ mem[c] # v
    /\ mem' = [mem EXCEPT ![c] = v]
    /\ op' = "corrupt"
    /\ mut' = "corrupt"
    /\ lim' = n
    /\ pre' = mem
    /\ cpos' = c
    /\ oob' = FALSE
    /\ ret' = 0
    /\ walk' = << >>
    /\ UNCHANGED <<n, cmp, st>>

Next ==
    \/ \E t \in ThrowAts : MakeHeap(t)
    \/ \E v \in Values, t \in ThrowAts : PushHeap(v, t)
    \/ \E t \in ThrowAts : PopHeap(t)
    \/ \E t \in ThrowAts : SortHeap(t)
    \/ \E l \in {n - 1, n} : IsHeapUntil(l)
    \/ Shrink
    \/ \E c \in 0 .. n - 1, v \in Values : Corrupt(c, v)

Spec == Init /\ [][Next]_vars

\* The exhaustive inputs and the patterned ones of at most MaxMid elements.
InitMid ==
    \E k \in MaxLen + 1 .. MaxMid : \E kind \in 0 .. 2 + MaxSeed : Start(Pattern(kind, k), k)

SpecMid == (Init \/ InitMid) /\ [][Next]_vars

\* The exhaustive inputs and the patterned ones.
SpecBig == (Init \/ InitBig) /\ [][Next]_vars

\* Every length up to MaxN, for what depends on the length alone: arrays of
\* equal elements.
InitSizes == \E k \in 0 .. MaxN : Start([p \in 0 .. k - 1 |-> 0], k)

SpecSizes == InitSizes /\ [][Next]_vars

\* ------------------------------------------------------------- observations

\* a and b hold the same elements, each as many times: one is a permutation
\* of the other.
SameElements(a, b, len) ==
    \A v \in {a[p] : p \in 0 .. len - 1} \cup {b[p] : p \in 0 .. len - 1} :
        Cardinality({p \in 0 .. len - 1 : a[p] = v})
            = Cardinality({p \in 0 .. len - 1 : b[p] = v})

\* No adjacent pair of a is out of order under the comparator.
Sorted(a, c, len) == \A p \in 0 .. len - 2 : ~compare(c, a[p + 1], a[p])

\* The positions at which the last call changed the array.
Changed == {p \in 0 .. n - 1 : mem[p] # pre[p]}

\* s is 2^k - 1 for some k >= 1.
IsPoplarSize(s) == \E k \in 1 .. Digits : s = Pow2(k) - 1

\* The sum of the poplar sizes of a walk.
RECURSIVE WalkSum(_)
WalkSum(w) == IF w = << >> THEN 0 ELSE Head(w)[2] + WalkSum(Tail(w))

\* The call was make_heap, push_heap, pop_heap or sort_heap.
Mutating == op \in {"make_heap", "push_heap", "pop_heap", "sort_heap"}

\* ------------------------------------------------------------------- claims

\* C1: after make_heap(first, last, compare), for every length and every
\* comparator, make_heap has returned and is_heap(first, last, compare) is
\* true: is_heap_until over the whole array returns last.
C1_MakeHeapThenIsHeap ==
    /\ (op = "make_heap" /\ st # "threw" => st = "ok")
    /\ (op = "is_heap_until" /\ mut = "make_heap" /\ lim = n => st = "ok" /\ ret = n)

\* C2: after pop_heap over a valid forest of n >= 1 elements, the element at
\* last - 1 is a maximum of the range as it was (it is heap-smaller than no
\* element of it), and is_heap(first, last - 1, compare) is true.
C2_PopHeapMovesMaximum ==
    /\ (op = "pop_heap" /\ st # "threw" =>
            /\ st = "ok"
            /\ \A p \in 0 .. n - 1 : ~compare(cmp, mem[n - 1], pre[p]))
    /\ (op = "is_heap_until" /\ mut = "pop_heap" /\ lim = n - 1 =>
            st = "ok" /\ ret = lim)

\* C2, its case: a pop_heap over at least 16 elements that exchanged the last
\* root with a bigger one and sifted it down, followed by is_heap over the
\* range without its last element.
C2_Witness ==
    /\ op = "is_heap_until" /\ mut = "pop_heap" /\ lim = n - 1
    /\ st = "ok" /\ ret = lim
    /\ n >= 16
    /\ Cardinality(Changed) >= 3

\* C3: after the caller appends an element to a valid forest and calls
\* push_heap over the extended range, push_heap has returned and
\* is_heap(first, last, compare) is true.
C3_PushHeapThenIsHeap ==
    /\ (op = "push_heap" /\ st # "threw" => st = "ok")
    /\ (op = "is_heap_until" /\ mut = "push_heap" /\ lim = n => st = "ok" /\ ret = n)

\* C4: make_heap followed by sort_heap leaves the array non-decreasing under
\* the comparator and holding the elements of the input: each of the two
\* calls returns and keeps the elements, and sort_heap leaves them in order.
C4_MakeHeapSortHeapSorts ==
    /\ (op = "make_heap" /\ st # "threw" => st = "ok" /\ SameElements(mem, pre, n))
    /\ (op = "sort_heap" /\ st # "threw" =>
            st = "ok" /\ SameElements(mem, pre, n) /\ Sorted(mem, cmp, n))

\* C5: is_heap_until returns last exactly when the range is a valid forest,
\* and otherwise the position that ends the longest prefix that is a valid
\* forest; is_heap is true exactly when it returns last.
C5_IsHeapUntilLongestPrefix ==
    op = "is_heap_until" =>
        /\ st = "ok"
        /\ (ret = lim <=> IsForest(mem, cmp, lim))
        /\ IsForest(mem, cmp, ret)
        /\ \A k \in ret + 1 .. lim : ~IsForest(mem, cmp, k)

\* C6, as stated: overwriting the element at position c of a valid forest, so
\* that the range is no valid forest any more, makes is_heap_until return a
\* position at or before c, and is_heap return false.
C6_CorruptionFoundAtOrBefore ==
    op = "is_heap_until" /\ mut = "corrupt" /\ lim = n /\ ~IsForest(mem, cmp, n) =>
        st = "ok" /\ ret <= cpos /\ ret # n

\* C6, amended: overwriting the element at position c of a valid forest, so
\* that the range is no valid forest any more, makes is_heap_until return a
\* position at or after c and before last (the first root that is
\* heap-smaller than a child root: c itself or the root of the poplar c is a
\* child root of), and is_heap return false.
C6_CorruptionFoundAtOrAfter ==
    op = "is_heap_until" /\ mut = "corrupt" /\ lim = n /\ ~IsForest(mem, cmp, n) =>
        st = "ok" /\ cpos <= ret /\ ret < n

\* C6, its case: an overwritten element that made a later root fail, in a
\* forest with a poplar of at least 7 elements.
C6_Witness ==
    /\ op = "is_heap_until" /\ mut = "corrupt" /\ lim = n
    /\ ~IsForest(mem, cmp, n)
    /\ st = "ok" /\ cpos < ret /\ ret < n
    /\ n >= 7

\* C7: when the comparator throws during make_heap, push_heap, pop_heap or
\* sort_heap, the array holds a permutation of the elements it held before
\* the call.
C7_ThrowLeavesPermutation ==
    Mutating /\ st = "threw" => SameElements(mem, pre, n)

\* C8: make_heap accesses no position outside [first, last).
C8_MakeHeapStaysInRange == op = "make_heap" => ~oob

\* C9: is_heap_until dereferences no position outside [first, last).
C9_IsHeapUntilStaysInRange == op = "is_heap_until" => ~oob

\* C10: for n >= 1 the walk of pop_heap_with_size ends, at the last element
\* as a poplar root; hyperfloor is never called with 0 and no root lies past
\* the last element; the poplar sizes visited are each 2^k - 1, do not
\* increase from left to right and sum to n; and the loop of push_heap over
\* the same n ends with the size of the last poplar of that walk.
C10_WalkReachesLastRoot ==
    op = "pop_heap" /\ st # "threw" =>
        /\ st = "ok"
        /\ Len(walk) >= 1
        /\ walk[Len(walk)][3] = n - 1
        /\ \A i \in 1 .. Len(walk) :
              /\ Wrap(walk[i][1] + 1) # 0
              /\ IsPoplarSize(walk[i][2])
              /\ walk[i][3] <= n - 1
              /\ (i > 1 => walk[i][2] <= walk[i - 1][2])
        /\ WalkSum(walk) = n
        /\ LET w == LastPoplarSize(Machine(mem, n, n, cmp, 0, TRUE), n, PoplarSize(n))
           IN  w.st = "ok" /\ w.ret = walk[Len(walk)][2]

\* C10, its case: a walk over at least 32 elements that visits four poplars
\* or more.
C10_Witness ==
    /\ op = "pop_heap" /\ st = "ok"
    /\ n >= 32
    /\ Len(walk) >= 4
    /\ walk[Len(walk)][3] = n - 1

====
